---- MODULE Spec2Model ----
(***************************************************************************)
(* Model of the frequency-table code generators of typer-cli:              *)
(*   scripts/fetch_common_words.py   (word pipeline)                       *)
(*   scripts/update_bigrams.py       (bigram pipeline)                     *)
(*   scripts/generate_trigrams.py    (trigram pipeline)                    *)
(*                                                                         *)
(* Strings are sequences of one-character strings.  Weights are integers   *)
(* in units of the pipeline's precision: hundredths for the n-gram         *)
(* pipelines (round(x, 2)), thousandths for the word pipeline              *)
(* (round(x, 3)).  Raw frequencies are integers and are only passed        *)
(* through.                                                                *)
(***************************************************************************)
EXTENDS Integers, Sequences, FiniteSets, TLC

VARIABLES
    called,     \* harness: name of the function applied, "none" before the call
    args,       \* harness: the arguments of the call
    ret,        \* harness: what the call returned or raised
    stdout,     \* lines printed so far
    tables,     \* run: the module-level frequency and example tables
    pc,         \* run: position of main()
    loop_i,     \* run: 1-based index of the running validation loop
    valid,      \* run: english_valid / french_valid, once assigned
    normalized  \* run: english_normalized / french_normalized, once assigned

harness == <<called, args, ret>>

run == <<tables, pc, loop_i, valid, normalized>>

vars == <<called, args, ret, stdout, tables, pc, loop_i, valid, normalized>>

\* No script is running: the state of the run variables in a harness
NoRun ==
    /\ tables = <<>>
    /\ pc = "idle"
    /\ loop_i = 0
    /\ valid = <<>>
    /\ normalized = <<>>

----------------------------------------------------------------------------
(* Bounds of the model *)

MaxLen == 4        \* longest enumerated ranked list
MaxCount == 5      \* largest count argument
MaxNeg == 2        \* counts go down to -MaxNeg

----------------------------------------------------------------------------
(* Program constants *)

WORD_COUNT == 500
BIGRAM_COUNT == 40
TRIGRAM_COUNT == 20

----------------------------------------------------------------------------
(* Python built-ins used by the scripts *)

Min(a, b) == IF a <= b THEN a ELSE b

Max(a, b) == IF a >= b THEN a ELSE b

\* seq[:n] : the first n elements for n >= 0, all but the last -n for n < 0
SliceTo(seq, n) ==
    IF n >= 0 THEN SubSeq(seq, 1, Min(n, Len(seq)))
    ELSE SubSeq(seq, 1, Max(Len(seq) + n, 0))

\* floor(num / den) for den > 0
FloorDiv(num, den) ==
    IF num >= 0 THEN num \div den ELSE -(((-num) + den - 1) \div den)

\* The values v + 0.5 (in hundredths) that the double computation
\* round(1.00 - (i / (count - 1)) * 0.30, 2) lands above the halfway point:
\* the binary result is not the decimal halfway value, so the direction of a
\* tie is decided by the representation error.  Values as produced by the
\* scripts for |count| <= 14; every other halfway value rounds down.
HalfwayUp == {-13, 2, 17, 32, 67, 72, 77, 87, 92, 117, 122, 137, 197}

\* round(num / den, ndigits) in units of 10^-ndigits: nearest integer to
\* num / den, a halfway case resolved by the set "up".
RoundRatio(num, den, up) ==
    LET n == IF den > 0 THEN num ELSE -num
        d == IF den > 0 THEN den ELSE -den
        q == FloorDiv(n, d)
        r == n - q * d
    IN  IF 2 * r < d THEN q
        ELSE IF 2 * r > d THEN q + 1
        ELSE IF q \in up THEN q + 1 ELSE q

\* str(n) for n >= 0: the decimal digits of n
DigitChars == <<"0", "1", "2", "3", "4", "5", "6", "7", "8", "9">>

RECURSIVE Decimal(_)
Decimal(n) ==
    IF n < 10 THEN <<DigitChars[n + 1]>>
    ELSE Decimal(n \div 10) \o <<DigitChars[(n % 10) + 1]>>

----------------------------------------------------------------------------
(* The three normalizers *)

\* An error-free return and a raised exception
Returned(v) == [error |-> "none", value |-> v]

Raised(e) == [error |-> e, value |-> <<>>]

\* Weight2 dividing the rank by count instead of count - 1
Weight2_DivideByCount(i, cnt) == RoundRatio(100 * cnt - 30 * i, cnt, HalfwayUp)

\* round(1.00 - (i / (count - 1)) * 0.30, 2), in hundredths; count # 1
Weight2(i, cnt) == RoundRatio(100 * (cnt - 1) - 30 * i, cnt - 1, HalfwayUp)

\* round(1.00 - (i / (WORD_COUNT - 1)) * 0.30, 3), in thousandths; no value
\* 300 * i / 499 is halfway between two thousandths
Weight3(i) == RoundRatio(1000 * (WORD_COUNT - 1) - 300 * i, WORD_COUNT - 1, {})

\* fetch_common_words.normalize_frequencies
normalize_frequencies_words(words) ==
    LET selected == SliceTo(words, WORD_COUNT)
    IN  Returned([k \in 1..Len(selected) |->
                    <<selected[k][1], selected[k][2], Weight3(k - 1)>>])

\* normalize_frequencies_bigrams ranking an entry by the number of selected
\* entries of higher raw frequency instead of by its position
normalize_frequencies_bigrams_ByFrequency(bigrams, cnt) ==
    LET selected == SliceTo(bigrams, cnt)
        Rank(k) == Cardinality({j \in 1..Len(selected) : selected[j][2] > selected[k][2]})
    IN  Returned([k \in 1..Len(selected) |->
                    <<selected[k][1], selected[k][2],
                      IF cnt > 1 THEN Weight2(Rank(k), cnt) ELSE 100>>])

\* update_bigrams.normalize_frequencies
normalize_frequencies_bigrams(bigrams, cnt) ==
    LET selected == SliceTo(bigrams, cnt)
    IN  Returned([k \in 1..Len(selected) |->
                    <<selected[k][1], selected[k][2],
                      IF cnt > 1 THEN Weight2(k - 1, cnt) ELSE 100>>])

\* generate_trigrams.normalize_frequencies: i / (count - 1) raises
\* ZeroDivisionError in the first iteration when count = 1
normalize_frequencies_trigrams(trigrams, cnt) ==
    LET selected == SliceTo(trigrams, cnt)
    IN  IF cnt = 1 /\ Len(selected) > 0
        THEN Raised("ZeroDivisionError")
        ELSE Returned([k \in 1..Len(selected) |->
                         <<selected[k][1], selected[k][2], Weight2(k - 1, cnt)>>])

----------------------------------------------------------------------------
(* Inputs of the normalizer harness *)

Texts == {<<"t", "h">>, <<"o", "f">>}

Freqs == {10, 50}

Entries == {<<t, f>> : t \in Texts, f \in Freqs}

RECURSIVE SeqsUpTo(_, _)
SeqsUpTo(S, n) ==
    IF n = 0 THEN {<<>>}
    ELSE LET shorter == SeqsUpTo(S, n - 1)
         IN  shorter \cup {Append(s, x) : s \in {t \in shorter : Len(t) = n - 1}, x \in S}

ShortLists == SeqsUpTo(Entries, MaxLen)

\* A table of the size of the word tables, built like their placeholder tail
\* [(f"word{i}", 250 - i) for i in range(300)]: n entries "word0", "word1", ...
\* in descending order of raw frequency
LongList(n) == [k \in 1..n |-> <<<<"w", "o", "r", "d">> \o Decimal(k - 1), 2 * WORD_COUNT - k>>]

LongLists == {LongList(n) : n \in {WORD_COUNT - 1, WORD_COUNT, WORD_COUNT + 1}}

Counts == (-MaxNeg)..MaxCount

InitNorm ==
    /\ called = "none"
    /\ args \in [ranked : ShortLists \cup LongLists, count : Counts]
    /\ ret = Returned(<<>>)
    /\ stdout = <<>>
    /\ NoRun

CallNormalizeWords ==
    /\ called = "none"
    /\ called' = "words"
    /\ ret' = normalize_frequencies_words(args.ranked)
    /\ UNCHANGED <<args, stdout, run>>

CallNormalizeBigrams ==
    /\ called = "none"
    /\ called' = "bigrams"
    /\ ret' = normalize_frequencies_bigrams(args.ranked, args.count)
    /\ UNCHANGED <<args, stdout, run>>

CallNormalizeTrigrams ==
    /\ called = "none"
    /\ called' = "trigrams"
    /\ ret' = normalize_frequencies_trigrams(args.ranked, args.count)
    /\ UNCHANGED <<args, stdout, run>>

NextNorm == CallNormalizeWords \/ CallNormalizeBigrams \/ CallNormalizeTrigrams

SpecNorm == InitNorm /\ [][NextNorm]_vars

----------------------------------------------------------------------------
(* Properties of the normalizers, stated on the harness *)

Normalized == called \in {"words", "bigrams", "trigrams"}

\* The target count of the call: the words normalizer always uses WORD_COUNT
N == IF called = "words" THEN WORD_COUNT ELSE args.count

\* 1.00 and 0.70 at the precision of the called normalizer
High == IF called = "words" THEN 1000 ELSE 100

Low == IF called = "words" THEN 700 ELSE 70

WeightOf(k) == ret.value[k][3]

\* C1: whenever the selected window min(N, length) holds more than one entry,
\* the first returned weight is 1.00 and the last returned weight is 0.70,
\* also for lists shorter than N.
C1_FirstMaxLastMin ==
    (Normalized /\ Min(N, Len(args.ranked)) > 1) =>
        /\ ret.error = "none"
        /\ Len(ret.value) > 1
        /\ WeightOf(1) = High
        /\ WeightOf(Len(ret.value)) = Low

\* C2: for every count N >= 1 the normalizer returns exactly min(N, length)
\* entries, the k-th carrying the text and raw frequency of the k-th input.
C2_LengthAndOrder ==
    (Normalized /\ N >= 1) =>
        /\ ret.error = "none"
        /\ Len(ret.value) = Min(N, Len(args.ranked))
        /\ \A k \in 1..Len(ret.value) :
              /\ ret.value[k][1] = args.ranked[k][1]
              /\ ret.value[k][2] = args.ranked[k][2]

\* C3: with count 1 and a non-empty list, the bigram and the trigram
\* normalizer return a single entry of weight 1.00 and raise nothing.
C3_SingleEntry ==
    (called \in {"bigrams", "trigrams"} /\ args.count = 1 /\ Len(args.ranked) > 0) =>
        /\ ret.error = "none"
        /\ Len(ret.value) = 1
        /\ WeightOf(1) = 100

\* C4: with a count <= 0 the bigram and the trigram normalizer fail with an
\* error and return no weighted list.
C4_NonPositiveCountFails ==
    (called \in {"bigrams", "trigrams"} /\ args.count <= 0) => ret.error # "none"

\* C5: every weight returned by a call that did not raise lies between 0.70
\* and 1.00 inclusive.
C5_WeightInRange ==
    (Normalized /\ ret.error = "none") =>
        \A k \in 1..Len(ret.value) : Low <= WeightOf(k) /\ WeightOf(k) <= High

\* C6: the returned weights are non-increasing in rank.
C6_Monotone ==
    (Normalized /\ ret.error = "none") =>
        \A i, j \in 1..Len(ret.value) : i < j => WeightOf(i) >= WeightOf(j)

\* |a|
Abs(a) == IF a >= 0 THEN a ELSE -a

\* C7: for N > 1 and a list of at least N entries the weight at 0-based rank
\* i is 1.00 - (i / (N - 1)) * 0.30 rounded to the normalizer's precision
\* (at most half a unit of the last place away from the exact value), and a
\* three-entry list with count 3 gets [1.00, 0.85, 0.70] from the n-gram
\* normalizers.
C7_LinearFormula ==
    (Normalized /\ N > 1 /\ Len(args.ranked) >= N) =>
        /\ ret.error = "none"
        /\ Len(ret.value) = N
        /\ \A k \in 1..N :
              2 * Abs(WeightOf(k) * (N - 1) - (High * (N - 1) - (3 * (High \div 10)) * (k - 1)))
                 <= N - 1
        /\ (called # "words" /\ N = 3) =>
              <<WeightOf(1), WeightOf(2), WeightOf(3)>> = <<100, 85, 70>>

C7_Witness ==
    /\ called = "bigrams"
    /\ args.count = 3
    /\ Len(args.ranked) = 3
    /\ ret.error = "none"
    /\ <<WeightOf(1), WeightOf(2), WeightOf(3)>> = <<100, 85, 70>>

----------------------------------------------------------------------------
(* generate_trigrams.validate_examples *)

\* The upper-case letters of the model's alphabet and their lower-case forms
UpperToLower == {<<"T", "t">>, <<"H", "h">>, <<"E", "e">>}

LowerChar(c) ==
    IF \E p \in UpperToLower : p[1] = c
    THEN (CHOOSE p \in UpperToLower : p[1] = c)[2]
    ELSE c

\* Lower with the case left as it is
Lower_CaseSensitive(s) == s

\* str.lower()
Lower(s) == [k \in 1..Len(s) |-> LowerChar(s[k])]

\* needle in haystack, on strings
IsSubstring(needle, haystack) ==
    \E off \in 0..(Len(haystack) - Len(needle)) :
        SubSeq(haystack, off + 1, off + Len(needle)) = needle

\* The line print(f"WARNING: '{example}' does not contain '{pattern}'")
Warning(example, pattern) == [line |-> "WARNING", example |-> example, pattern |-> pattern]

\* The for loop of validate_examples from its k-th iteration on; acc holds
\* all_valid and the lines printed so far
RECURSIVE validate_loop(_, _, _, _)
validate_loop(pat, exs, k, acc) ==
    IF k > Len(exs) THEN acc
    ELSE validate_loop(pat, exs, k + 1,
            IF ~IsSubstring(Lower(pat), Lower(exs[k]))
            THEN [all_valid |-> FALSE,
                  printed |-> Append(acc.printed, Warning(exs[k], pat))]
            ELSE acc)

validate_examples(pat, exs) ==
    validate_loop(pat, exs, 1, [all_valid |-> TRUE, printed |-> <<>>])

(* Inputs of the validator harness *)

MaxExamples == 3

Patterns == {<<"t", "h">>, <<"T", "h">>, <<"a", "t">>}

ExampleWords ==
    {<<"t", "h", "e">>, <<"t", "h", "a", "t">>, <<"c", "a", "t">>,
     <<"T", "H", "E">>, <<"h", "t">>}

InitValidate ==
    /\ called = "none"
    /\ args \in [pattern : Patterns, examples : SeqsUpTo(ExampleWords, MaxExamples)]
    /\ ret = Returned(<<>>)
    /\ stdout = <<>>
    /\ NoRun

CallValidateExamples ==
    /\ called = "none"
    /\ called' = "validate_examples"
    /\ LET r == validate_examples(args.pattern, args.examples)
       IN  /\ ret' = Returned(r.all_valid)
           /\ stdout' = stdout \o r.printed
    /\ UNCHANGED <<args, run>>

NextValidate == CallValidateExamples

SpecValidate == InitValidate /\ [][NextValidate]_vars

\* Two characters that are the same letter, whatever their case
SameLetter(a, b) == a = b \/ <<a, b>> \in UpperToLower \/ <<b, a>> \in UpperToLower

\* The pattern occurs in the example when case is ignored
ContainsIgnoringCase(pat, ex) ==
    \E off \in 0..(Len(ex) - Len(pat)) :
        \A j \in 1..Len(pat) : SameLetter(pat[j], ex[off + j])

FailsContainment(ex) == ~ContainsIgnoringCase(args.pattern, ex)

\* C8: validate_examples returns True exactly when every example contains the
\* pattern case-insensitively, and prints a warning for exactly the examples
\* that do not, each of them, in order, continuing past the first failure;
\* "th" with ["the", "that", "cat"] reports only "cat" and returns False.
C8_ValidatorExact ==
    called = "validate_examples" =>
        /\ ret.error = "none"
        /\ ret.value = (\A k \in 1..Len(args.examples) :
                            ContainsIgnoringCase(args.pattern, args.examples[k]))
        /\ [k \in 1..Len(stdout) |-> stdout[k].example]
              = SelectSeq(args.examples, FailsContainment)
        /\ \A k \in 1..Len(stdout) :
              stdout[k].line = "WARNING" /\ stdout[k].pattern = args.pattern

C8_Witness ==
    /\ called = "validate_examples"
    /\ args.pattern = <<"t", "h">>
    /\ args.examples = <<<<"t", "h", "e">>, <<"t", "h", "a", "t">>, <<"c", "a", "t">>>>
    /\ ret.value = FALSE
    /\ stdout = <<Warning(<<"c", "a", "t">>, <<"t", "h">>)>>

----------------------------------------------------------------------------
(* The emitters.  Emitted text is a sequence of atoms whose concatenation  *)
(* is the Python string: every interpolated string contributes its         *)
(* characters one by one, every double quote and every newline of a        *)
(* template is an atom of its own, and the remaining template fragments    *)
(* (which hold neither a quote nor a backslash) are one atom each.         *)

Quote == "\""

Backslash == "\\"

Newline == "\n"

\* str.capitalize() and str.lower() on the language labels passed by main
CapitalizeName(language) ==
    CASE language \in {"english", "English"} -> "English"
      [] language \in {"french", "French"} -> "French"

LowerName(language) ==
    CASE language \in {"english", "English"} -> "english"
      [] language \in {"french", "French"} -> "french"

\* n written with at least width digits, zero-padded on the left
RECURSIVE ZeroPad(_, _)
ZeroPad(digits, width) ==
    IF Len(digits) >= width THEN digits ELSE ZeroPad(<<"0">> \o digits, width)

RECURSIVE Pow10(_)
Pow10(n) == IF n = 0 THEN 1 ELSE 10 * Pow10(n - 1)

\* f"{x:.<places>f}" of the number v * 10^-places
FormatFixed(v, places) ==
    LET a == IF v < 0 THEN -v ELSE v
    IN  (IF v < 0 THEN <<"-">> ELSE <<>>)
        \o Decimal(a \div Pow10(places)) \o <<".">>
        \o ZeroPad(Decimal(a % Pow10(places)), places)

\* sep.join(strings)
RECURSIVE Join(_, _)
Join(sep, strings) ==
    IF Len(strings) = 0 THEN <<>>
    ELSE IF Len(strings) = 1 THEN strings[1]
    ELSE strings[1] \o sep \o Join(sep, Tail(strings))

\* word.replace('"', '\\"')
RECURSIVE EscapeQuotes(_)
EscapeQuotes(word) ==
    IF Len(word) = 0 THEN <<>>
    ELSE (IF Head(word) = Quote THEN <<Backslash, Quote>> ELSE <<Head(word)>>)
         \o EscapeQuotes(Tail(word))

\* dict.get(key, default)
Get(dict, key, default) == IF key \in DOMAIN dict THEN dict[key] ELSE default

\* The loop body of fetch_common_words.generate_rust_code, from entry k on
RECURSIVE WordLines(_, _)
WordLines(words, k) ==
    IF k > Len(words) THEN <<>>
    ELSE <<"        Word::new(", Quote>> \o EscapeQuotes(words[k][1])
         \o <<Quote, ", ">> \o FormatFixed(words[k][3], 3) \o <<"),", Newline>>
         \o WordLines(words, k + 1)

\* fetch_common_words.generate_rust_code
generate_rust_code_words(language, words) ==
    LET source == IF language = "english" THEN "COCA" ELSE "Lexique 3.83"
    IN  <<"/// ", CapitalizeName(language), " common words (frequency-ordered)", Newline,
          "///", Newline,
          "/// Source: ", source, " corpus", Newline,
          "/// Frequencies normalized to 0.70-1.00 range for typing practice", Newline,
          "/// Top 500 words selected from corpus analysis", Newline,
          "/// Last updated: 2025-12-30", Newline,
          "pub fn ", language, "_words() -> Vec<Word> {", Newline,
          "    vec![", Newline>>
        \o WordLines(words, 1)
        \o <<"    ]", Newline, "}", Newline, Newline>>

\* The number of examples an n-gram emitter writes per unit
MaxEmitted == 10

\* [f"ex{i}" for i in range(10)]
BigramPlaceholder == [i \in 1..10 |-> <<"e", "x">> \o Decimal(i - 1)]

\* ["example"] * 10
\* A placeholder of a single "example"
TrigramPlaceholder_Single == <<<<"e", "x", "a", "m", "p", "l", "e">>>>

TrigramPlaceholder == [i \in 1..10 |-> <<"e", "x", "a", "m", "p", "l", "e">>]

\* BigramLines writing a unit only the first time it occurs in the list
RECURSIVE BigramLines_SkipRepeated(_, _, _)
BigramLines_SkipRepeated(bigrams, examples_dict, k) ==
    IF k > Len(bigrams) THEN <<>>
    ELSE IF \E j \in 1..(k - 1) : bigrams[j][1] = bigrams[k][1]
    THEN BigramLines_SkipRepeated(bigrams, examples_dict, k + 1)
    ELSE LET examples == Get(examples_dict, bigrams[k][1], BigramPlaceholder)
             examples_str == Join(<<Quote, ", ", Quote>>, SliceTo(examples, MaxEmitted))
         IN  <<"        // Corpus: ">> \o FormatFixed(bigrams[k][2], 2) \o <<"%", Newline>>
             \o <<"        Bigram::new(", Quote>> \o bigrams[k][1] \o <<Quote, ", ">>
             \o FormatFixed(bigrams[k][3], 2) \o <<", &[", Quote>> \o examples_str
             \o <<Quote, "]),", Newline>>
             \o BigramLines_SkipRepeated(bigrams, examples_dict, k + 1)

\* The loop body of update_bigrams.generate_rust_function, from entry k on
RECURSIVE BigramLines(_, _, _)
BigramLines(bigrams, examples_dict, k) ==
    IF k > Len(bigrams) THEN <<>>
    ELSE LET examples == Get(examples_dict, bigrams[k][1], BigramPlaceholder)
             examples_str == Join(<<Quote, ", ", Quote>>, SliceTo(examples, MaxEmitted))
         IN  <<"        // Corpus: ">> \o FormatFixed(bigrams[k][2], 2) \o <<"%", Newline>>
             \o <<"        Bigram::new(", Quote>> \o bigrams[k][1] \o <<Quote, ", ">>
             \o FormatFixed(bigrams[k][3], 2) \o <<", &[", Quote>> \o examples_str
             \o <<Quote, "]),", Newline>>
             \o BigramLines(bigrams, examples_dict, k + 1)

\* update_bigrams.generate_rust_function; today is the value of date.today()
generate_rust_function(language, bigrams, examples_dict, source, today) ==
    LET func_name == <<LowerName(language), "_bigrams">>
    IN  <<"/// ", language, " language bigrams (frequency-ordered)", Newline,
          "///", Newline,
          "/// Source: ", source, Newline,
          "/// Frequencies normalized to 0.70-1.00 range for typing practice", Newline,
          "/// Top ">> \o Decimal(Len(bigrams))
        \o <<" bigrams selected from top 100 corpus analysis", Newline,
             "/// Last updated: ", today, Newline,
             "pub fn ">> \o func_name \o <<"() -> Vec<Bigram> {", Newline,
             "    vec![", Newline>>
        \o BigramLines(bigrams, examples_dict, 1)
        \o <<"    ]", Newline, "}", Newline>>

\* TrigramLines leaving out the examples that do not contain their trigram
RECURSIVE TrigramLines_DropInvalid(_, _, _)
TrigramLines_DropInvalid(trigrams, examples, k) ==
    IF k > Len(trigrams) THEN <<>>
    ELSE LET ContainsUnit(e) == IsSubstring(Lower(trigrams[k][1]), Lower(e))
             example_list ==
                 SliceTo(SelectSeq(Get(examples, trigrams[k][1], TrigramPlaceholder),
                                   ContainsUnit), MaxEmitted)
             examples_str == Join(<<Quote, ", ", Quote>>, example_list)
         IN  <<"        // Corpus: ">> \o FormatFixed(trigrams[k][2], 2) \o <<"%", Newline>>
             \o <<"        Trigram::new(", Quote>> \o trigrams[k][1] \o <<Quote, ", ">>
             \o FormatFixed(trigrams[k][3], 2) \o <<", &[", Quote>> \o examples_str
             \o <<Quote, "]),", Newline>>
             \o TrigramLines_DropInvalid(trigrams, examples, k + 1)

\* TrigramLines without the [:10] slice of the example list
RECURSIVE TrigramLines_NoLimit(_, _, _)
TrigramLines_NoLimit(trigrams, examples, k) ==
    IF k > Len(trigrams) THEN <<>>
    ELSE LET example_list == Get(examples, trigrams[k][1], TrigramPlaceholder)
             examples_str == Join(<<Quote, ", ", Quote>>, example_list)
         IN  <<"        // Corpus: ">> \o FormatFixed(trigrams[k][2], 2) \o <<"%", Newline>>
             \o <<"        Trigram::new(", Quote>> \o trigrams[k][1] \o <<Quote, ", ">>
             \o FormatFixed(trigrams[k][3], 2) \o <<", &[", Quote>> \o examples_str
             \o <<Quote, "]),", Newline>>
             \o TrigramLines_NoLimit(trigrams, examples, k + 1)

\* The loop body of generate_trigrams.generate_rust_code, from entry k on
RECURSIVE TrigramLines(_, _, _)
TrigramLines(trigrams, examples, k) ==
    IF k > Len(trigrams) THEN <<>>
    ELSE LET example_list ==
                 SliceTo(Get(examples, trigrams[k][1], TrigramPlaceholder), MaxEmitted)
             examples_str == Join(<<Quote, ", ", Quote>>, example_list)
         IN  <<"        // Corpus: ">> \o FormatFixed(trigrams[k][2], 2) \o <<"%", Newline>>
             \o <<"        Trigram::new(", Quote>> \o trigrams[k][1] \o <<Quote, ", ">>
             \o FormatFixed(trigrams[k][3], 2) \o <<", &[", Quote>> \o examples_str
             \o <<Quote, "]),", Newline>>
             \o TrigramLines(trigrams, examples, k + 1)

\* generate_trigrams.generate_rust_code; today is the value of date.today()
generate_rust_code_trigrams(language, trigrams, examples, today) ==
    LET lang_name == CapitalizeName(language)
        source == IF language = "english" THEN "Peter Norvig"
                  ELSE "Lexique database & French corpus studies"
    IN  <<"/// ", lang_name, " language trigrams (frequency-ordered)", Newline,
          "///", Newline,
          "/// Source: ", source, Newline,
          "/// Frequencies normalized to 0.70-1.00 range for typing practice", Newline,
          "/// Top ">> \o Decimal(TRIGRAM_COUNT)
        \o <<" trigrams selected from corpus analysis", Newline,
             "/// Last updated: ", today, Newline,
             "pub fn ", language, "_trigrams() -> Vec<Trigram> {", Newline,
             "    vec![", Newline>>
        \o TrigramLines(trigrams, examples, 1)
        \o <<"    ]", Newline, "}", Newline>>

(* Inputs of the emitter harness *)

MaxEntries == 2

EmitTexts == {<<"t", "h">>, <<"a", Quote>>, <<Backslash, Quote>>}

EmitWeights == {85, 1000}

WeightedEntries == {<<t, 356, w>> : t \in EmitTexts, w \in EmitWeights}

\* n example words "w1", "w2", ...
ExampleList(n) == [i \in 1..n |-> <<"w">> \o Decimal(i)]

\* The example tables: a unit is missing, has fewer examples than are
\* emitted, or has one more
ExampleTables ==
    LET keys == {<<"t", "h">>, <<"a", Quote>>}
    IN  UNION {[d -> {ExampleList(2), ExampleList(MaxEmitted + 1)}] : d \in SUBSET keys}

Languages == {"english", "french"}

Dates == {"2025-12-30", "2025-12-31"}

InitEmit ==
    /\ called = "none"
    /\ args \in [language : Languages,
                 entries : SeqsUpTo(WeightedEntries, MaxEntries),
                 examples : ExampleTables,
                 today : Dates]
    /\ ret = Returned(<<>>)
    /\ stdout = <<>>
    /\ NoRun

CallEmitWords ==
    /\ called = "none"
    /\ called' = "emit_words"
    /\ ret' = Returned(generate_rust_code_words(args.language, args.entries))
    /\ UNCHANGED <<args, stdout, run>>

\* The source citation main passes for each language
BigramSource(language) ==
    IF language = "english" THEN "Peter Norvig (http://norvig.com/mayzner.html)"
    ELSE "Lexique database & French corpus studies"

CallEmitBigrams ==
    /\ called = "none"
    /\ called' = "emit_bigrams"
    /\ ret' = Returned(generate_rust_function(CapitalizeName(args.language), args.entries,
                           args.examples, BigramSource(args.language), args.today))
    /\ UNCHANGED <<args, stdout, run>>

CallEmitTrigrams ==
    /\ called = "none"
    /\ called' = "emit_trigrams"
    /\ ret' = Returned(generate_rust_code_trigrams(args.language, args.entries,
                           args.examples, args.today))
    /\ UNCHANGED <<args, stdout, run>>

NextEmit == CallEmitWords \/ CallEmitBigrams \/ CallEmitTrigrams

SpecEmit == InitEmit /\ [][NextEmit]_vars

----------------------------------------------------------------------------
(* Properties of the emitted text *)

Emitted == called \in {"emit_words", "emit_bigrams", "emit_trigrams"}

\* The lines of a text, without their newlines: line i runs from after the
\* (i-1)-th newline to before the i-th (or to the end of the text)
SplitLines(text) ==
    LET newlines == {p \in 1..Len(text) : text[p] = Newline}
        n == Cardinality(newlines)
        Nth(i) == IF i = 0 THEN 0
                  ELSE IF i > n THEN Len(text) + 1
                  ELSE CHOOSE p \in newlines : Cardinality({q \in newlines : q <= p}) = i
        count == IF Len(text) > 0 /\ text[Len(text)] # Newline THEN n + 1 ELSE n
    IN  [i \in 1..count |-> SubSeq(text, Nth(i - 1) + 1, Nth(i) - 1)]

\* Reading a line as the target language does: a double quote opens a string
\* literal, inside a literal a backslash escapes the next character and an
\* unescaped double quote closes it.  TRUE when the line ends inside a
\* literal.
RECURSIVE EndsInsideLiteral(_, _, _)
EndsInsideLiteral(line, inside, escaped) ==
    IF Len(line) = 0 THEN inside
    ELSE LET c == Head(line)
         IN  IF ~inside THEN EndsInsideLiteral(Tail(line), c = Quote, FALSE)
             ELSE IF escaped THEN EndsInsideLiteral(Tail(line), TRUE, FALSE)
             ELSE IF c = Backslash THEN EndsInsideLiteral(Tail(line), TRUE, TRUE)
             ELSE EndsInsideLiteral(Tail(line), c # Quote, FALSE)

\* The constructor-call line of the k-th entry of the emitted block: the
\* header has 8 lines, an n-gram entry has a comment line before it
EntryLine(k) ==
    LET lines == SplitLines(ret.value)
    IN  IF called = "emit_words" THEN lines[8 + k] ELSE lines[8 + 2 * k]

\* C10: a unit text is embedded with each of its double quotes preceded by a
\* backslash, in all three emitters, and in every line of the emitted block
\* each string literal that is opened is closed.
C10_QuotesEscapedBalanced ==
    Emitted =>
        /\ \A k \in 1..Len(args.entries) :
              LET text == args.entries[k][1]
                  line == EntryLine(k)
              IN  \A p \in 1..Len(text) :
                    text[p] = Quote =>
                      \E q \in 2..Len(line) : line[q] = Quote /\ line[q - 1] = Backslash
        /\ LET lines == SplitLines(ret.value)
           IN  \A i \in 1..Len(lines) : ~EndsInsideLiteral(lines[i], FALSE, FALSE)

----------------------------------------------------------------------------
(* generate_trigrams.main *)

MaxTable == 2

THE == <<"t", "h", "e">>

ING == <<"i", "n", "g">>

CAT == <<"c", "a", "t">>

\* Frequency tables of up to MaxTable trigrams
RunEntries == {<<THE, 351>>, <<ING, 158>>}

RunTables == SeqsUpTo(RunEntries, MaxTable)

\* Example tables: "the" has no examples, two valid ones, an invalid second
\* one, or an invalid one after MaxEmitted valid ones; "ing" has a valid or
\* an invalid example
RunExamples ==
    LET the == {<<THE, <<"T", "H", "E">>>>, <<THE, CAT>>,
                [i \in 1..(MaxEmitted + 1) |-> IF i <= MaxEmitted THEN THE ELSE CAT]}
        ing == {<<ING>>, <<CAT>>}
    IN  {[u \in {ING} |-> i] : i \in ing}
        \cup {[u \in {THE, ING} |-> IF u = THE THEN t ELSE i] : t \in the, i \in ing}

InitTrigramRun ==
    /\ called = "none"
    /\ args = <<>>
    /\ ret = Returned(<<>>)
    /\ stdout = <<>>
    /\ tables \in [ENGLISH_TOP_20 : RunTables, FRENCH_TOP_20 : RunTables,
                   ENGLISH_EXAMPLES : RunExamples, FRENCH_EXAMPLES : RunExamples]
    /\ pc = "start"
    /\ loop_i = 0
    /\ valid = <<>>
    /\ normalized = <<>>

\* A printed line that carries no data of the run
Line(name) == [line |-> name]

\* name = value, for a local of main
Assign(locals, name, value) ==
    [n \in DOMAIN locals \cup {name} |-> IF n = name THEN value ELSE locals[n]]

\* The banner, "Validating English examples..." and english_valid = True
TrigramStart ==
    /\ pc = "start"
    /\ stdout' = stdout \o <<Line("banner"), Line("Validating English examples...")>>
    /\ valid' = Assign(valid, "english", TRUE)
    /\ loop_i' = 1
    /\ pc' = "validate_english"
    /\ UNCHANGED <<harness, tables, normalized>>

\* ValidateIteration assigning the flag the result of the last unit checked
ValidateIteration_LastResult(language, top, examples_table) ==
    LET selected == SliceTo(top, TRIGRAM_COUNT)
        trigram == selected[loop_i][1]
        examples == Get(examples_table, trigram, <<>>)
        r == validate_examples(trigram, examples)
    IN  /\ loop_i <= Len(selected)
        /\ stdout' = stdout \o r.printed
        /\ valid' = Assign(valid, language, r.all_valid)
        /\ loop_i' = loop_i + 1
        /\ UNCHANGED <<harness, tables, pc, normalized>>

\* One iteration of a validation loop over top[:TRIGRAM_COUNT]
ValidateIteration(language, top, examples_table) ==
    LET selected == SliceTo(top, TRIGRAM_COUNT)
        trigram == selected[loop_i][1]
        examples == Get(examples_table, trigram, <<>>)
        r == validate_examples(trigram, examples)
    IN  /\ loop_i <= Len(selected)
        /\ stdout' = stdout \o r.printed
        /\ valid' = IF ~r.all_valid THEN Assign(valid, language, FALSE) ELSE valid
        /\ loop_i' = loop_i + 1
        /\ UNCHANGED <<harness, tables, pc, normalized>>

ValidateEnglish ==
    /\ pc = "validate_english"
    /\ ValidateIteration("english", tables.ENGLISH_TOP_20, tables.ENGLISH_EXAMPLES)

\* The English loop is exhausted: "Validating French examples..." and
\* french_valid = True
ValidateEnglishDone ==
    /\ pc = "validate_english"
    /\ loop_i > Len(SliceTo(tables.ENGLISH_TOP_20, TRIGRAM_COUNT))
    /\ stdout' = Append(stdout, Line("Validating French examples..."))
    /\ valid' = Assign(valid, "french", TRUE)
    /\ loop_i' = 1
    /\ pc' = "validate_french"
    /\ UNCHANGED <<harness, tables, normalized>>

ValidateFrench ==
    /\ pc = "validate_french"
    /\ ValidateIteration("french", tables.FRENCH_TOP_20, tables.FRENCH_EXAMPLES)

\* The French loop is exhausted: the verdict of lines 174-178
ValidateFrenchDone ==
    /\ pc = "validate_french"
    /\ loop_i > Len(SliceTo(tables.FRENCH_TOP_20, TRIGRAM_COUNT))
    /\ stdout' = Append(stdout,
                    IF ~(valid.english /\ valid.french)
                    THEN Line("WARNING: Some examples do not contain their trigrams!")
                    ELSE Line("All examples validated successfully!"))
    /\ pc' = "normalize_english"
    /\ UNCHANGED <<harness, tables, loop_i, valid, normalized>>

\* x_normalized = normalize_frequencies(X_TOP_20, TRIGRAM_COUNT); an exception
\* ends the run
NormalizeStep(language, top, next) ==
    LET r == normalize_frequencies_trigrams(top, TRIGRAM_COUNT)
    IN  /\ IF r.error = "none"
           THEN /\ normalized' = Assign(normalized, language, r.value)
                /\ pc' = next
                /\ stdout' = stdout
           ELSE /\ normalized' = normalized
                /\ pc' = "raised"
                /\ stdout' = Append(stdout, Line(r.error))
        /\ UNCHANGED <<harness, tables, loop_i, valid>>

NormalizeEnglish ==
    /\ pc = "normalize_english"
    /\ NormalizeStep("english", tables.ENGLISH_TOP_20, "normalize_french")

NormalizeFrench ==
    /\ pc = "normalize_french"
    /\ NormalizeStep("french", tables.FRENCH_TOP_20, "summary")

\* The summary of one language: the number of trigrams, the first five
\* entries and the "... n more" line
Summary(language, entries) ==
    [line |-> "summary", language |-> language, trigrams |-> Len(entries),
     top |-> SliceTo(entries, 5), more |-> Len(entries) - 5]

PrintSummary ==
    /\ pc = "summary"
    /\ stdout' = stdout \o <<Summary("english", normalized.english),
                             Summary("french", normalized.french)>>
    /\ pc' = "emit_english"
    /\ UNCHANGED <<harness, tables, loop_i, valid, normalized>>

\* print(generate_rust_code(language, x_normalized, X_EXAMPLES))
Code(language, text) == [line |-> "code", language |-> language, text |-> text]

EmitEnglish ==
    /\ pc = "emit_english"
    /\ \E today \in Dates :
          stdout' = Append(stdout, Code("english",
                        generate_rust_code_trigrams("english", normalized.english,
                                                    tables.ENGLISH_EXAMPLES, today)))
    /\ pc' = "emit_french"
    /\ UNCHANGED <<harness, tables, loop_i, valid, normalized>>

EmitFrench ==
    /\ pc = "emit_french"
    /\ \E today \in Dates :
          stdout' = Append(stdout, Code("french",
                        generate_rust_code_trigrams("french", normalized.french,
                                                    tables.FRENCH_EXAMPLES, today)))
    /\ pc' = "next_steps"
    /\ UNCHANGED <<harness, tables, loop_i, valid, normalized>>

\* The closing "NEXT STEPS" lines
TrigramFinish ==
    /\ pc = "next_steps"
    /\ stdout' = Append(stdout, Line("NEXT STEPS"))
    /\ pc' = "done"
    /\ UNCHANGED <<harness, tables, loop_i, valid, normalized>>

NextTrigramRun ==
    \/ TrigramStart
    \/ ValidateEnglish
    \/ ValidateEnglishDone
    \/ ValidateFrench
    \/ ValidateFrenchDone
    \/ NormalizeEnglish
    \/ NormalizeFrench
    \/ PrintSummary
    \/ EmitEnglish
    \/ EmitFrench
    \/ TrigramFinish

SpecTrigramRun == InitTrigramRun /\ [][NextTrigramRun]_vars

----------------------------------------------------------------------------
(* update_bigrams.main *)

TH == <<"t", "h">>

HE == <<"h", "e">>

\* Frequency tables of up to MaxTable bigrams
BigramRunEntries == {<<TH, 356>>, <<HE, 307>>}

BigramRunTables == SeqsUpTo(BigramRunEntries, MaxTable)

\* Example tables: each bigram is missing or registered; "th" has an example
\* that contains it or one that does not
BigramRunExamples ==
    LET OfUnit(u) == IF u = TH THEN {<<THE>>, <<CAT>>} ELSE {<<THE>>}
    IN  UNION {{e \in [d -> {<<THE>>, <<CAT>>}] : \A u \in d : e[u] \in OfUnit(u)} :
                 d \in SUBSET {TH, HE}}

InitBigramRun ==
    /\ called = "none"
    /\ args = <<>>
    /\ ret = Returned(<<>>)
    /\ stdout = <<>>
    /\ tables \in [ENGLISH_TOP_100 : BigramRunTables, FRENCH_TOP_100 : BigramRunTables,
                   ENGLISH_EXAMPLES : BigramRunExamples, FRENCH_EXAMPLES : BigramRunExamples]
    /\ pc = "start"
    /\ loop_i = 0
    /\ valid = <<>>
    /\ normalized = <<>>

\* The banner and the list of sources
BigramStart ==
    /\ pc = "start"
    /\ stdout' = Append(stdout, Line("banner"))
    /\ pc' = "normalize_english"
    /\ UNCHANGED <<harness, tables, loop_i, valid, normalized>>

\* x_normalized = normalize_frequencies(X_TOP_100, BIGRAM_COUNT)
BigramNormalizeStep(language, top, next) ==
    LET r == normalize_frequencies_bigrams(top, BIGRAM_COUNT)
    IN  /\ normalized' = Assign(normalized, language, r.value)
        /\ pc' = next
        /\ UNCHANGED <<harness, stdout, tables, loop_i, valid>>

BigramNormalizeEnglish ==
    /\ pc = "normalize_english"
    /\ BigramNormalizeStep("english", tables.ENGLISH_TOP_100, "normalize_french")

BigramNormalizeFrench ==
    /\ pc = "normalize_french"
    /\ BigramNormalizeStep("french", tables.FRENCH_TOP_100, "summary")

BigramPrintSummary ==
    /\ pc = "summary"
    /\ stdout' = stdout \o <<Summary("english", normalized.english),
                             Summary("french", normalized.french)>>
    /\ pc' = "generate_english"
    /\ UNCHANGED <<harness, tables, loop_i, valid, normalized>>

\* x_code = generate_rust_function("X", x_normalized, X_EXAMPLES, source)
GenerateStep(language, code, examples_dict, next) ==
    /\ \E today \in Dates :
          normalized' = Assign(normalized, code,
                            generate_rust_function(CapitalizeName(language),
                                normalized[language], examples_dict,
                                BigramSource(language), today))
    /\ pc' = next
    /\ UNCHANGED <<harness, stdout, tables, loop_i, valid>>

GenerateEnglish ==
    /\ pc = "generate_english"
    /\ GenerateStep("english", "english_code", tables.ENGLISH_EXAMPLES, "generate_french")

\* GenerateFrench reading the English example table
GenerateFrench_EnglishExamples ==
    /\ pc = "generate_french"
    /\ GenerateStep("french", "french_code", tables.ENGLISH_EXAMPLES, "print_code")

GenerateFrench ==
    /\ pc = "generate_french"
    /\ GenerateStep("french", "french_code", tables.FRENCH_EXAMPLES, "print_code")

\* print(english_code), print(french_code) and the closing "NEXT STEPS" lines
BigramFinish ==
    /\ pc = "print_code"
    /\ stdout' = stdout \o <<Code("english", normalized.english_code),
                             Code("french", normalized.french_code),
                             Line("NEXT STEPS")>>
    /\ pc' = "done"
    /\ UNCHANGED <<harness, tables, loop_i, valid, normalized>>

NextBigramRun ==
    \/ BigramStart
    \/ BigramNormalizeEnglish
    \/ BigramNormalizeFrench
    \/ BigramPrintSummary
    \/ GenerateEnglish
    \/ GenerateFrench
    \/ BigramFinish

SpecBigramRun == InitBigramRun /\ [][NextBigramRun]_vars

----------------------------------------------------------------------------
(* Properties of the runs *)

TopOf(language) ==
    IF language = "english" THEN tables.ENGLISH_TOP_20 ELSE tables.FRENCH_TOP_20

ExamplesOf(language) ==
    IF language = "english" THEN tables.ENGLISH_EXAMPLES ELSE tables.FRENCH_EXAMPLES

\* The examples that fail the containment check of a language: rank of the
\* unit in the selected table, position in the unit's example list, example
FailingExamples(language) ==
    LET selected == SliceTo(TopOf(language), TRIGRAM_COUNT)
        table == ExamplesOf(language)
        OfUnit(k) ==
            LET unit == selected[k][1]
            IN  IF unit \notin DOMAIN table THEN {}
                ELSE {<<k, p, table[unit][p]>> :
                        p \in {q \in 1..Len(table[unit]) :
                                  ~ContainsIgnoringCase(unit, table[unit][q])}}
    IN  UNION {OfUnit(k) : k \in 1..Len(selected)}

ValidationOver == pc \notin {"start", "validate_english", "validate_french"}

\* The code blocks printed for a language
BlocksOf(language) ==
    {stdout[i].text : i \in {j \in 1..Len(stdout) :
                               stdout[j].line = "code" /\ stdout[j].language = language}}

\* The string e stands in the line as a string literal of its own
IsLiteralOf(e, line) ==
    \E p \in 2..(Len(line) - Len(e)) :
        /\ line[p - 1] = Quote
        /\ SubSeq(line, p, p + Len(e) - 1) = e
        /\ line[p + Len(e)] = Quote

\* The run goes on to the end, the flag of a language with a failing example
\* is false once validation is over, and at the end both languages are
\* normalized and emitted, every failing example among those in "failing"
\* standing unchanged in the entry line of its unit
NonFatal(failing(_)) ==
    (\E language \in Languages : FailingExamples(language) # {}) =>
        /\ pc # "raised"
        /\ pc # "done" => ENABLED NextTrigramRun
        /\ ValidationOver =>
              \A language \in Languages :
                  FailingExamples(language) # {} => valid[language] = FALSE
        /\ pc = "done" =>
              \A language \in Languages :
                  /\ language \in DOMAIN normalized
                  /\ Len(normalized[language]) = Len(SliceTo(TopOf(language), TRIGRAM_COUNT))
                  /\ Cardinality(BlocksOf(language)) = 1
                  /\ \A text \in BlocksOf(language) :
                        \A f \in failing(language) :
                            IsLiteralOf(f[3], SplitLines(text)[8 + 2 * f[1]])

\* C9 as stated: a validation failure never aborts the trigram run; the flag
\* becomes false, normalization and emission run for every language and the
\* emitted block contains every failing example unchanged.
C9_AllFailingEmitted == NonFatal(FailingExamples)

FailingEmittable(language) == {f \in FailingExamples(language) : f[2] <= MaxEmitted}

\* C9, amended: a validation failure never aborts the trigram run; the flag
\* becomes false, normalization and emission run for every language and the
\* emitted block contains unchanged every failing example that is among the
\* first 10 examples of its unit (later examples are validated but, like
\* every example after the tenth, not emitted).
C9_FailingAmongFirstTenEmitted == NonFatal(FailingEmittable)

C9_Witness ==
    /\ pc = "done"
    /\ Len(tables.ENGLISH_TOP_20) > 0
    /\ tables.ENGLISH_TOP_20[1][1] = THE
    /\ THE \in DOMAIN tables.ENGLISH_EXAMPLES
    /\ tables.ENGLISH_EXAMPLES[THE] = <<THE, CAT>>
    /\ valid.english = FALSE
    /\ \E text \in BlocksOf("english") : IsLiteralOf(CAT, SplitLines(text)[10])

----------------------------------------------------------------------------
(* Further properties of the emitters *)

\* The opening of a constructor call of the called emitter
Constructor ==
    CASE called = "emit_words" -> "        Word::new("
      [] called = "emit_bigrams" -> "        Bigram::new("
      [] called = "emit_trigrams" -> "        Trigram::new("

\* Decimal places of the weights of the called emitter
Places == IF called = "emit_words" THEN 3 ELSE 2

\* The number a sequence of decimal digits denotes
DigitValue(c) == CHOOSE d \in 0..9 : DigitChars[d + 1] = c

RECURSIVE DigitsValue(_)
DigitsValue(digits) ==
    IF Len(digits) = 0 THEN 0
    ELSE 10 * DigitsValue(SubSeq(digits, 1, Len(digits) - 1)) + DigitValue(digits[Len(digits)])

\* TRUE when w is an unsigned number written with exactly "places" decimals
\* and denotes value * 10^-places
DenotesFixed(w, places, value) ==
    /\ Len(w) >= places + 2
    /\ w[Len(w) - places] = "."
    /\ \A p \in 1..Len(w) : p # Len(w) - places => w[p] \in {DigitChars[d] : d \in 1..10}
    /\ DigitsValue(SubSeq(w, 1, Len(w) - places - 1)) * Pow10(places)
         + DigitsValue(SubSeq(w, Len(w) - places + 1, Len(w))) = value

\* The text with a backslash put before each double quote
RECURSIVE WithQuotesEscaped(_)
WithQuotesEscaped(text) ==
    IF Len(text) = 0 THEN <<>>
    ELSE IF text[1] = Quote THEN <<Backslash, Quote>> \o WithQuotesEscaped(Tail(text))
    ELSE <<text[1]>> \o WithQuotesEscaped(Tail(text))

\* The line is a constructor call of the called emitter for the entry: the
\* constructor, the text in quotes (verbatim, or with its quotes escaped)
\* and the weight at the emitter's precision
CarriesEntry(line, entry) ==
    \E e \in {entry[1], WithQuotesEscaped(entry[1])} :
        \E wlen \in 1..(Len(line) - Len(e) - 4) :
            /\ SubSeq(line, 1, Len(e) + 4) = <<Constructor, Quote>> \o e \o <<Quote, ", ">>
            /\ DenotesFixed(SubSeq(line, Len(e) + 5, Len(e) + 4 + wlen), Places, entry[3])
            /\ line[Len(e) + 5 + wlen] \in {"),", ", &["}

\* The lines of the emitted block that open a constructor call
ConstructorLines ==
    LET lines == SplitLines(ret.value)
    IN  SelectSeq(lines, LAMBDA l : Len(l) > 0 /\ l[1] = Constructor)

\* C11: each emitter writes exactly one constructor-call line per entry it is
\* given, and the k-th such line carries the text and the weight of the k-th
\* entry, also when unit texts repeat.
C11_OneLinePerEntryInOrder ==
    Emitted =>
        /\ Len(ConstructorLines) = Len(args.entries)
        /\ \A k \in 1..Len(args.entries) : CarriesEntry(ConstructorLines[k], args.entries[k])

C11_Witness ==
    /\ called = "emit_bigrams"
    /\ Len(args.entries) = 2
    /\ args.entries[1][1] = args.entries[2][1]
    /\ args.entries[1][3] # args.entries[2][3]
    /\ Len(ConstructorLines) = 2
    /\ CarriesEntry(ConstructorLines[2], args.entries[2])

\* The pieces of a sequence between the occurrences of the atom sep
SplitOn(seq, sep) ==
    LET seps == {p \in 1..Len(seq) : seq[p] = sep}
        n == Cardinality(seps)
        Nth(i) == IF i = 0 THEN 0
                  ELSE IF i > n THEN Len(seq) + 1
                  ELSE CHOOSE p \in seps : Cardinality({q \in seps : q <= p}) = i
    IN  [i \in 1..(n + 1) |-> SubSeq(seq, Nth(i - 1) + 1, Nth(i) - 1)]

\* The elements written between "&[" and "])" of an n-gram constructor line,
\* each still in its quotes
ArrayElements(line) ==
    LET open == CHOOSE p \in 1..Len(line) : line[p] = ", &["
        close == CHOOSE p \in 1..Len(line) : line[p] = "]),"
    IN  SplitOn(SubSeq(line, open + 1, close - 1), ", ")

InQuotes(s) == <<Quote>> \o s \o <<Quote>>

EmittedNgrams == called \in {"emit_bigrams", "emit_trigrams"}

\* C12: for every unit with registered examples the bigram and the trigram
\* emitter write exactly the first min(10, n) of its n examples, in their
\* order, and nothing after the tenth.
C12_FirstTenExamples ==
    EmittedNgrams =>
        \A k \in 1..Len(args.entries) :
            LET unit == args.entries[k][1]
            IN  (unit \in DOMAIN args.examples /\ Len(args.examples[unit]) > 0) =>
                    LET registered == args.examples[unit]
                        written == ArrayElements(ConstructorLines[k])
                    IN  /\ Len(written) = Min(10, Len(registered))
                        /\ \A i \in 1..Len(written) : written[i] = InQuotes(registered[i])

C12_Witness ==
    /\ called = "emit_trigrams"
    /\ Len(args.entries) > 0
    /\ args.entries[1][1] \in DOMAIN args.examples
    /\ Len(args.examples[args.entries[1][1]]) = 11
    /\ Len(ArrayElements(ConstructorLines[1])) = 10
    /\ ArrayElements(ConstructorLines[1])[10] = InQuotes(args.examples[args.entries[1][1]][10])

\* What stands in the array of a unit without registered examples
ExpectedPlaceholder ==
    IF called = "emit_bigrams"
    THEN <<InQuotes(<<"e", "x", "0">>), InQuotes(<<"e", "x", "1">>), InQuotes(<<"e", "x", "2">>),
           InQuotes(<<"e", "x", "3">>), InQuotes(<<"e", "x", "4">>), InQuotes(<<"e", "x", "5">>),
           InQuotes(<<"e", "x", "6">>), InQuotes(<<"e", "x", "7">>), InQuotes(<<"e", "x", "8">>),
           InQuotes(<<"e", "x", "9">>)>>
    ELSE [i \in 1..10 |-> InQuotes(<<"e", "x", "a", "m", "p", "l", "e">>)]

Missing(k) == args.entries[k][1] \notin DOMAIN args.examples

\* C13: a unit missing from the example table does not make the bigram or
\* the trigram emitter fail; its line carries a fixed array of exactly 10
\* placeholder elements, and every other entry is written with its own
\* text, weight and registered examples.
C13_MissingUnitPlaceholder ==
    EmittedNgrams =>
        /\ ret.error = "none"
        /\ Len(ConstructorLines) = Len(args.entries)
        /\ \A k \in 1..Len(args.entries) :
            LET written == ArrayElements(ConstructorLines[k])
            IN  /\ CarriesEntry(ConstructorLines[k], args.entries[k])
                /\ Missing(k) => Len(written) = 10 /\ written = ExpectedPlaceholder
                /\ ~Missing(k) =>
                       LET registered == args.examples[args.entries[k][1]]
                       IN  written = [i \in 1..Min(10, Len(registered)) |-> InQuotes(registered[i])]

C13_Witness ==
    /\ EmittedNgrams
    /\ Len(args.entries) = 2
    /\ Missing(1) /\ ~Missing(2)
    /\ ArrayElements(ConstructorLines[1]) = ExpectedPlaceholder
    /\ Len(ArrayElements(ConstructorLines[2])) = 2

----------------------------------------------------------------------------
(* Further properties of the runs *)

BigramRunning == "ENGLISH_TOP_100" \in DOMAIN tables

\* The selected units of a language in the running script
SelectedOf(language) ==
    IF BigramRunning
    THEN SliceTo(IF language = "english" THEN tables.ENGLISH_TOP_100
                 ELSE tables.FRENCH_TOP_100, BIGRAM_COUNT)
    ELSE SliceTo(TopOf(language), TRIGRAM_COUNT)

\* The registered examples of a selected unit that do not contain it
NotContaining(language, k) ==
    LET unit == SelectedOf(language)[k][1]
        table == ExamplesOf(language)
    IN  IF unit \notin DOMAIN table THEN {}
        ELSE {table[unit][p] : p \in {q \in 1..Len(table[unit]) :
                                         ~ContainsIgnoringCase(unit, table[unit][q])}}

\* The positions in stdout of the code blocks of a language
BlockPositions(language) ==
    {j \in 1..Len(stdout) : stdout[j].line = "code" /\ stdout[j].language = language}

\* C15: in a bigram run and in a trigram run a language's block is printed
\* only after the examples of each of its selected units were checked for
\* containment: the language has its pass/fail flag, and every example that
\* does not contain its unit was warned about before the block.
C15_ValidatedBeforeEmitted ==
    \A language \in Languages :
        \A b \in BlockPositions(language) :
            /\ language \in DOMAIN valid
            /\ \A k \in 1..Len(SelectedOf(language)) :
                  \A example \in NotContaining(language, k) :
                      \E w \in 1..(b - 1) :
                          stdout[w] = Warning(example, SelectedOf(language)[k][1])

\* The selected units of a language that have no entry in its example table
MissingUnits(language) ==
    {SelectedOf(language)[k][1] : k \in {j \in 1..Len(SelectedOf(language)) :
        SelectedOf(language)[j][1] \notin DOMAIN ExamplesOf(language)}}

\* A printed line that reports the unit as having no examples; it is neither
\* a validation warning nor the verdict, a summary or a code block
ReportsMissing(printed, unit) ==
    /\ printed.line \notin {"WARNING", "code", "summary", "banner", "NEXT STEPS",
                            "All examples validated successfully!",
                            "WARNING: Some examples do not contain their trigrams!",
                            "Validating English examples...",
                            "Validating French examples..."}
    /\ "unit" \in DOMAIN printed
    /\ printed.unit = unit

\* C16: once a block with placeholder examples for a missing unit is printed,
\* the run has reported the unit as missing its examples, and a run with a
\* missing unit does not end having printed that all examples were validated
\* successfully.
C16_MissingReported ==
    \A language \in Languages :
        \A unit \in MissingUnits(language) :
            /\ BlockPositions(language) # {} =>
                   \E j \in 1..Len(stdout) : ReportsMissing(stdout[j], unit)
            /\ pc = "done" =>
                   \A j \in 1..Len(stdout) :
                       stdout[j] # Line("All examples validated successfully!")

\* The flag of a language says whether all its examples contain their unit
FlagExact(language) ==
    /\ language \in DOMAIN valid
    /\ valid[language] = (FailingExamples(language) = {})

\* Every example of the language that fails was warned about, whichever
\* unit it belongs to
AllFailuresWarned(language) ==
    \A f \in FailingExamples(language) :
        \E j \in 1..Len(stdout) :
            stdout[j] = Warning(f[3], SelectedOf(language)[f[1]][1])

FlagsAtEnd ==
    /\ pc = "validate_french" => FlagExact("english") /\ AllFailuresWarned("english")
    /\ ValidationOver =>
          \A language \in Languages : FlagExact(language) /\ AllFailuresWarned(language)

\* A flag that is false stays false, and a step of one language's
\* validation loop leaves the other language's flag as it is
FlagsStep ==
    /\ \A language \in DOMAIN valid :
          valid[language] = FALSE => valid'[language] = FALSE
    /\ (pc = "validate_french" /\ pc' = "validate_french") =>
          valid'["english"] = valid["english"]
    /\ (pc = "validate_english" /\ pc' = "validate_english") =>
          DOMAIN valid' = {"english"}

\* C17: in the trigram run a language's flag is true at the end of
\* validation iff every example of every selected unit of the language
\* contains the unit, case-insensitively; units after a failing one are
\* still checked, a false flag never becomes true again, and a failure in
\* one language leaves the other language's flag unchanged.
C17_FlagExactMonotoneIndependent == [](FlagsAtEnd) /\ [][FlagsStep]_vars

C17_Witness ==
    /\ pc = "normalize_english"
    /\ \E f, g \in FailingExamples("english") : f[1] = 1 /\ g[1] = 2
    /\ AllFailuresWarned("english")
    /\ valid["english"] = FALSE
    /\ FailingExamples("french") = {} /\ Len(SelectedOf("french")) = 2
    /\ valid["french"] = TRUE

----------------------------------------------------------------------------
(* Further properties of the normalizers *)

\* The called normalizer applied to another ranked list, same count
Renormalized(ranked) ==
    CASE called = "words" -> normalize_frequencies_words(ranked)
      [] called = "bigrams" -> normalize_frequencies_bigrams(ranked, args.count)
      [] called = "trigrams" -> normalize_frequencies_trigrams(ranked, args.count)

\* The positions at which an entry is replaced: the first ones and the last
ReplacedPositions ==
    {k \in 1..Len(args.ranked) : k <= MaxLen + 1 \/ k = Len(args.ranked)}

\* The ranked lists of the same length that differ from the argument in the
\* text or the raw frequency of one entry, and the argument reversed
Variants ==
    {[args.ranked EXCEPT ![k] = e] : k \in ReplacedPositions, e \in Entries}
    \cup {[k \in 1..Len(args.ranked) |-> args.ranked[Len(args.ranked) + 1 - k]]}

SameWeights(r) ==
    /\ r.error = ret.error
    /\ Len(r.value) = Len(ret.value)
    /\ \A k \in 1..Len(r.value) : r.value[k][3] = ret.value[k][3]

\* C18: the weights depend only on position and count: a list of the same
\* length with another text or raw frequency in any one place, or in
\* reversed order, gets the same weight at every position (hence so do any
\* two lists of the same length), and each returned entry carries the text
\* and the raw frequency of the argument's entry at its position.
C18_WeightByPositionOnly ==
    Normalized =>
        /\ \A other \in Variants : SameWeights(Renormalized(other))
        /\ \A k \in 1..Len(ret.value) :
              /\ ret.value[k][1] = args.ranked[k][1]
              /\ ret.value[k][2] = args.ranked[k][2]

C18_Witness ==
    /\ called = "bigrams"
    /\ ret.error = "none"
    /\ Len(ret.value) = 3
    /\ args.ranked[1][2] < args.ranked[2][2]
    /\ WeightOf(1) > WeightOf(2) /\ WeightOf(2) > WeightOf(3)
    /\ \E other \in Variants :
          /\ other[2][2] # args.ranked[2][2]
          /\ Renormalized(other).value[2][3] = WeightOf(2)

\* The frequency table of a language in the running script
FrequenciesOf(language) ==
    IF BigramRunning
    THEN IF language = "english" THEN tables.ENGLISH_TOP_100 ELSE tables.FRENCH_TOP_100
    ELSE TopOf(language)

\* What one language's pipeline yields when it is run alone on that
\* language's tables: the normalized list and, for a date, the block
AloneNormalized(language) ==
    IF BigramRunning
    THEN normalize_frequencies_bigrams(FrequenciesOf(language), BIGRAM_COUNT).value
    ELSE normalize_frequencies_trigrams(FrequenciesOf(language), TRIGRAM_COUNT).value

AloneBlock(language, today) ==
    IF BigramRunning
    THEN generate_rust_function(CapitalizeName(language), AloneNormalized(language),
                                ExamplesOf(language), BigramSource(language), today)
    ELSE generate_rust_code_trigrams(language, AloneNormalized(language),
                                     ExamplesOf(language), today)

IndependentResults ==
    \A language \in Languages :
        /\ language \in DOMAIN normalized =>
              normalized[language] = AloneNormalized(language)
        /\ \A b \in BlockPositions(language) :
              \E today \in Dates : stdout[b].text = AloneBlock(language, today)

\* C19: the two languages' pipelines are independent: although main runs
\* their steps alternately, the normalized list and the block of a language
\* are those of its pipeline run alone on its own tables, whatever the other
\* language's tables hold and whatever was processed before, and no step
\* changes the frequency or example tables.
C19_LanguagesIndependent == [](IndependentResults) /\ [][tables' = tables]_vars

C19_Witness ==
    /\ pc = "done"
    /\ BigramRunning
    /\ Len(tables.ENGLISH_TOP_100) = 2 /\ Len(tables.FRENCH_TOP_100) = 1
    /\ tables.ENGLISH_EXAMPLES # tables.FRENCH_EXAMPLES
    /\ \A language \in Languages : Cardinality(BlockPositions(language)) = 1
    /\ Len(normalized["english"]) = 2 /\ Len(normalized["french"]) = 1

====
